---- MODULE Spec2Model ----
(***************************************************************************)
(* A model of the service layer of the marketing application:              *)
(*   src/src/services/email.ts   templates, campaigns, campaign analytics  *)
(*   src/src/services/social.ts  social posts and interactions             *)
(* The record store (Supabase) and the delivery provider (Resend) are      *)
(* external: every request to them settles with one of the outcomes their  *)
(* client libraries can produce, chosen nondeterministically.              *)
(***************************************************************************)
EXTENDS Integers, Sequences, FiniteSets, TLC

(***************************************************************************)
(* Bounds of the model.                                                    *)
(***************************************************************************)
\* contacts in the contacts collection
NContacts == 3
\* pieces concatenated to build a template content
MaxParts == 2
\* names listed in template.variables
MaxVars == 2
\* concurrent calls of the validated-write functions
NCallers == 2
\* rows of campaign_analytics the performance query reads
MaxEvents == 2

(***************************************************************************)
(* JavaScript values.  A value is a tagged record; a string is the         *)
(* sequence of its characters, a number is kept by its decimal form.       *)
(***************************************************************************)
Str(chars) == [t |-> "string", s |-> chars]

Num(chars) == [t |-> "number", s |-> chars]

Undefined == [t |-> "undefined", s |-> << >>]

\* o.k for an object o: undefined when o has no property k
Field(o, k) == IF k \in DOMAIN o THEN o[k] ELSE Undefined

\* ToBoolean: undefined, "" and 0 are falsy
Truthy(v) ==
  CASE v.t = "undefined" -> FALSE
    [] v.t = "string" -> v.s # << >>
    [] v.t = "number" -> v.s # <<"0">>
    [] OTHER -> TRUE

\* ToString of a value handed to String.prototype.replace
ToStr(v) == IF v.t = "undefined" THEN <<"u", "n", "d", "e", "f", "i", "n", "e", "d">> ELSE v.s

\* the characters of the names that can be listed in template.variables
Chars(name) ==
  CASE name = "name" -> <<"n", "a", "m", "e">>
    [] name = "city" -> <<"c", "i", "t", "y">>
    [] name = "unused" -> <<"u", "n", "u", "s", "e", "d">>
    [] name = "visits" -> <<"v", "i", "s", "i", "t", "s">>

\* the template literal `{{${variable}}}`
Token(variable) == <<"{", "{">> \o Chars(variable) \o <<"}", "}">>

(***************************************************************************)
(* String.prototype.replace(searchString, replaceString)                   *)
(***************************************************************************)
\* String.prototype.indexOf, 1-based; 0 when pat does not occur in s
IndexOf(s, pat) ==
  LET hits == {i \in 1..(Len(s) - Len(pat) + 1) : SubSeq(s, i, i + Len(pat) - 1) = pat}
  IN IF hits = {} THEN 0 ELSE CHOOSE i \in hits : \A j \in hits : i <= j

\* GetSubstitution for a string pattern (no captures): $$ is $, $& the match,
\* $` the text before the match, $' the text after it; any other $ is literal
RECURSIVE GetSubstitution(_, _, _, _, _)
GetSubstitution(matched, before, after, repl, i) ==
  IF i > Len(repl) THEN << >>
  ELSE IF repl[i] = "$" /\ i < Len(repl) /\ repl[i + 1] \in {"$", "&", "`", "'"}
    THEN (CASE repl[i + 1] = "$" -> <<"$">>
            [] repl[i + 1] = "&" -> matched
            [] repl[i + 1] = "`" -> before
            [] repl[i + 1] = "'" -> after)
         \o GetSubstitution(matched, before, after, repl, i + 2)
    ELSE <<repl[i]>> \o GetSubstitution(matched, before, after, repl, i + 1)

\* content.replace(pat, repl): the first occurrence only
StringReplace(s, pat, repl) ==
  LET i == IndexOf(s, pat)
      before == SubSeq(s, 1, i - 1)
      after == SubSeq(s, i + Len(pat), Len(s))
  IN IF i = 0 THEN s
     ELSE before \o GetSubstitution(pat, before, after, repl, 1) \o after

\* const value = contact[variable] || ''
ValueOf(contact, variable) ==
  LET v == Field(contact, variable) IN IF Truthy(v) THEN v ELSE Str(<< >>)

\* template.variables.forEach(variable => content = content.replace(...))
RECURSIVE Substitute(_, _, _)
Substitute(content, variables, contact) ==
  IF variables = << >> THEN content
  ELSE Substitute(StringReplace(content, Token(Head(variables)),
                                ToStr(ValueOf(contact, Head(variables)))),
                  Tail(variables), contact)

\* const html = render(content): the markup conversion wraps the content, it
\* does not rewrite it
render(content) == <<"<", "!", ">">> \o content

(***************************************************************************)
(* State.                                                                  *)
(***************************************************************************)
VARIABLES
  \* --- template substitution on its own ---
  template,            \* the EmailTemplate being rendered
  contact,             \* the recipient's row
  content,             \* `let content`: the substituted content
  rendered,            \* whether the substitution has run
  \* --- scheduleCampaign ---
  build,               \* which definition of scheduleCampaign the module binds (1 or 2)
  campaign,            \* the EmailCampaign argument
  cpc,                 \* position of the scheduleCampaign call
  contacts,            \* the rows the contacts query returned
  scheduledEmails,     \* the per-contact promises of contacts.map
  outbox,              \* requests handed to resend.emails.send
  campaign_analytics,  \* rows of the campaign_analytics collection
  email_campaigns,     \* the stored campaign row (status, sent_at)
  thrown,              \* the error the call threw, "none" if none
  returned,            \* the value the call returned, "none" if none
  \* --- validated writes ---
  social_posts,        \* rows of the social_posts collection
  email_templates,     \* rows of the email_templates collection
  social_interactions, \* rows of the social_interactions collection
  calls,               \* the validated-write calls, one per caller
  \* --- getCampaignPerformance ---
  metrics              \* the CampaignAnalytics the call returned

vars == <<template, contact, content, rendered, build, campaign, cpc, contacts,
          scheduledEmails, outbox, campaign_analytics, email_campaigns, thrown,
          returned, social_posts, email_templates, social_interactions, calls,
          metrics>>

renderVars == <<template, contact, content, rendered>>

campaignVars == <<build, campaign, cpc, contacts, scheduledEmails, outbox,
                  email_campaigns, thrown, returned>>

writeVars == <<social_posts, social_interactions, calls>>

\* values of the variables a specification does not use
IdleRender ==
  /\ template = [content |-> << >>, variables |-> << >>]
  /\ contact = [id |-> Str(<<"c">>)]
  /\ content = << >>
  /\ rendered = FALSE

IdleCampaign ==
  /\ build = 2
  /\ campaign = [id |-> "c1"]
  /\ cpc = "idle"
  /\ contacts = << >>
  /\ scheduledEmails = << >>
  /\ outbox = << >>
  /\ email_campaigns = [status |-> "scheduled", sent_at |-> "null"]
  /\ thrown = "none"
  /\ returned = [kind |-> "none"]

IdleWrites ==
  /\ social_posts = << >>
  /\ social_interactions = << >>
  /\ calls = << >>

(***************************************************************************)
(* Template substitution: inputs drawn from bounded sets.                  *)
(***************************************************************************)
RECURSIVE SeqsUpTo(_, _)
SeqsUpTo(S, n) ==
  IF n = 0 THEN {<< >>}
  ELSE LET shorter == SeqsUpTo(S, n - 1)
       IN shorter \cup {Append(q, x) : q \in shorter, x \in S}

RECURSIVE Concat(_)
Concat(parts) == IF parts = << >> THEN << >> ELSE Head(parts) \o Concat(Tail(parts))

\* "Hi {{name}}, {{unused}}!"
ExampleContent ==
  <<"H", "i", " ">> \o Token("name") \o <<",", " ">> \o Token("unused") \o <<"!">>

Ana == Str(<<"A", "n", "a">>)

Pieces == {Token("name"), Token("city"), Token("unused"), Token("visits"), <<"H", "i", " ">>, <<"{">>}

Contents == {ExampleContent} \cup {Concat(parts) : parts \in SeqsUpTo(Pieces, MaxParts)}

VariableLists == SeqsUpTo({"name", "city", "visits"}, MaxVars)

NameValues == {Ana, Str(<< >>), Str(<<"$", "&">>), Str(<<"$", "$">>), Str(Token("city"))}

RenderContacts ==
  LET base == [id |-> Str(<<"c", "1">>)]
      withName == {base} \cup {base @@ [name |-> v] : v \in NameValues}
      withCity == withName \cup {c @@ [city |-> Str(<<"R", "i", "o">>)] : c \in withName}
  IN withCity \cup {c @@ [visits |-> n] : c \in withCity, n \in {Num(<<"0">>), Num(<<"7">>)}}

InitRender ==
  /\ template \in [content : Contents, variables : VariableLists]
  /\ contact \in RenderContacts
  /\ content = template.content
  /\ rendered = FALSE
  /\ IdleCampaign
  /\ IdleWrites
  /\ campaign_analytics = << >>
  /\ email_templates = << >>
  /\ metrics = [pc |-> "idle"]

\* lines 296-300: the substitution loop of one recipient
RenderContent ==
  /\ ~rendered
  /\ content' = Substitute(template.content, template.variables, contact)
  /\ rendered' = TRUE
  /\ UNCHANGED <<template, contact, campaignVars, writeVars, campaign_analytics,
                 email_templates, metrics>>

NextRender == RenderContent

SpecRender == InitRender /\ [][NextRender]_vars

\* how often pat occurs in s
Occurrences(s, pat) ==
  Cardinality({i \in 1..(Len(s) - Len(pat) + 1) : SubSeq(s, i, i + Len(pat) - 1) = pat})

\* every occurrence of pat in s replaced by the literal text lit
RECURSIVE ReplaceEvery(_, _, _)
ReplaceEvery(s, pat, lit) ==
  LET i == IndexOf(s, pat)
  IN IF i = 0 THEN s
     ELSE SubSeq(s, 1, i - 1) \o lit \o ReplaceEvery(SubSeq(s, i + Len(pat), Len(s)), pat, lit)

\* the substitution as the specification words it: each listed name in order,
\* its token replaced by the string form of the recipient's value, or by the
\* empty string when the recipient has none
RECURSIVE SubstituteAsStated(_, _, _)
SubstituteAsStated(text, variables, row) ==
  IF variables = << >> THEN text
  ELSE LET v == Field(row, Head(variables))
           lit == IF v.t = "undefined" THEN << >> ELSE v.s
       IN SubstituteAsStated(ReplaceEvery(text, Token(Head(variables)), lit),
                             Tail(variables), row)

\* a recipient whose values are absent or plain text: no number, and no
\* character that a placeholder or a replacement pattern is made of
PlainValues(row) ==
  \A k \in DOMAIN row :
    /\ row[k].t = "string"
    /\ \A j \in 1..Len(row[k].s) : row[k].s[j] \notin {"$", "{", "}"}

\* C7: the rendered content is the template content with, for each listed name
\* in listed order, the token {{name}} replaced by the recipient's value (empty
\* when absent), and every token of an unlisted name left as it was; stated
\* here for recipients whose values are plain text.
C7_SubstitutionAsStated ==
  (rendered /\ PlainValues(contact))
  => content = SubstituteAsStated(template.content, template.variables, contact)

\* the same for any recipient: values with $-patterns, and the number 0
C7_SubstitutionOfAnyValue ==
  rendered => content = SubstituteAsStated(template.content, template.variables, contact)

\* the worked example of C7: "Hi {{name}}, {{unused}}!" with ["name"] and Ana
C7_Example ==
  (/\ rendered
   /\ template.content = ExampleContent
   /\ template.variables = <<"name">>
   /\ Field(contact, "name") = Ana)
  => content = <<"H", "i", " ", "A", "n", "a", ",", " ">> \o Token("unused") \o <<"!">>

\* tokens of names that are not listed are still there after the substitution
C7_UnlistedKept ==
  rendered =>
    \A u \in {"name", "city", "unused", "visits"} :
      (\A k \in 1..Len(template.variables) : template.variables[k] # u)
      => Occurrences(content, Token(u)) >= Occurrences(template.content, Token(u))

(***************************************************************************)
(* scheduleCampaign (email.ts holds two definitions of it: lines 86-154    *)
(* and lines 274-342; `build` says which one the module binds).            *)
(***************************************************************************)
Vip == Str(<<"v", "i", "p">>)

Std == Str(<<"s", "t", "d">>)

Timestamp == Str(<<"T">>)

\* the contacts collection: odd rows are vip, even rows are std and have no name
ContactRow(i) ==
  LET row == [id |-> Str(<<"c", ToString(i)>>),
              email |-> Str(<<"e", ToString(i)>>),
              segment |-> IF i % 2 = 1 THEN Vip ELSE Std]
  IN IF i % 2 = 1 THEN row @@ [name |-> Ana] ELSE row

ContactsTable == [i \in 1..NContacts |-> ContactRow(i)]

\* the email_templates collection holds one template, "t1"
TemplateRow ==
  [id |-> "t1", name |-> "welcome", subject |-> "Welcome",
   content |-> ExampleContent, variables |-> <<"name">>]

NoTemplate == [content |-> << >>, variables |-> << >>]

\* target_audience is a set of <<key, value>> pairs: an equality filter
Audiences == {{}, {<<"segment", Vip>>}, {<<"segment", Std>>}}

CampaignInputs ==
  LET base == {[id |-> "c1", name |-> "launch", template_id |-> t, status |-> "scheduled",
                target_audience |-> a] : t \in {"t1", "t9"}, a \in Audiences}
  IN base \cup {c @@ [scheduled_at |-> v] : c \in base, v \in {Str(<< >>), Timestamp}}

\* .match(campaign.target_audience): every pair of the filter equals the row's
Matches(row, audience) ==
  \A kv \in audience : kv[1] \in DOMAIN row /\ row[kv[1]] = kv[2]

MatchedContacts(audience) ==
  SelectSeq(ContactsTable, LAMBDA row : Matches(row, audience))

\* .eq('id', id).single(): the one row with that id, an error otherwise
RowsWithId(rows, id) == SelectSeq(rows, LAMBDA row : row.id = id)

\* line 88: the first definition reads a property EmailCampaign does not have
SchedulePropertyFirst == "scheduled_for"

\* line 276
SchedulePropertySecond == "scheduled_at"

ScheduleProperty == IF build = 1 THEN SchedulePropertyFirst ELSE SchedulePropertySecond

\* supabase.from('campaign_analytics').insert({campaign_id, recipient_id, sent_at}):
\* the columns the insert does not give are null
AnalyticsEvent(campaign_id, recipient_id) ==
  [campaign_id |-> campaign_id, recipient_id |-> recipient_id, sent_at |-> "now",
   opened_at |-> "null", clicked_at |-> "null", converted_at |-> "null",
   unsubscribed_at |-> "null", conversion_value |-> 0]

\* resend.emails.send({from, to, subject, html}) for one contact
Message(tpl, row) ==
  [from |-> "hello@queerluxe.travel", to |-> row.email, subject |-> tpl.subject,
   html |-> render(Substitute(tpl.content, tpl.variables, row))]

\* a callback of contacts.map, suspended at its first await
Sending == [pc |-> "sending", send |-> "pending", insert |-> "none", value |-> "pending"]

\* line 320: return true
Fulfilled(task, ins) == [task EXCEPT !.pc = "settled", !.insert = ins, !.value = "true"]

CaughtAsTrue(task, snd, ins) ==
  [task EXCEPT !.pc = "settled", !.send = snd, !.insert = ins, !.value = "true"]

\* lines 321-324: catch (error) { console.error(...); return false }
Caught(task, snd, ins) ==
  [task EXCEPT !.pc = "settled", !.send = snd, !.insert = ins, !.value = "false"]

PromiseRace(tasks) == \E i \in 1..Len(tasks) : tasks[i].pc = "settled"

\* line 327: await Promise.all(scheduledEmails); no callback rejects, so it
\* resumes when every one of them has settled
PromiseAll(tasks) == \A i \in 1..Len(tasks) : tasks[i].pc = "settled"

InitCampaign ==
  /\ build \in {1, 2}
  /\ campaign \in CampaignInputs
  /\ cpc = "called"
  /\ template = NoTemplate
  /\ contacts = << >>
  /\ scheduledEmails = << >>
  /\ outbox = << >>
  /\ campaign_analytics = << >>
  /\ email_campaigns = [status |-> "scheduled", sent_at |-> "null"]
  /\ email_templates = <<TemplateRow>>
  /\ thrown = "none"
  /\ returned = [kind |-> "none"]
  /\ contact = [id |-> Str(<<"c">>)]
  /\ content = << >>
  /\ rendered = FALSE
  /\ IdleWrites
  /\ metrics = [pc |-> "idle"]

campaignRest == <<contact, content, rendered, build, campaign, email_templates,
                  writeVars, metrics>>

\* lines 88-90 / 276-278
CheckSchedule ==
  /\ cpc = "called"
  /\ IF ~Truthy(Field(campaign, ScheduleProperty))
       THEN /\ thrown' = "ScheduleRequired"
            /\ cpc' = "thrown"
       ELSE /\ cpc' = "getTemplate"
            /\ UNCHANGED thrown
  /\ UNCHANGED <<template, contacts, scheduledEmails, outbox, campaign_analytics,
                 email_campaigns, returned, campaignRest>>

\* lines 93-94 / 281-282 with getEmailTemplate (lines 257-271): .single() gives an
\* error when no row has the id, and any store request can fail
GetEmailTemplate ==
  /\ cpc = "getTemplate"
  /\ LET rows == RowsWithId(email_templates, campaign.template_id)
     IN \/ /\ Len(rows) = 1
           /\ template' = rows[1]
           /\ cpc' = "getContacts"
           /\ UNCHANGED thrown
        \/ /\ thrown' = IF Len(rows) = 1 THEN "TemplateStoreError" ELSE "TemplateNotFound"
           /\ cpc' = "thrown"
           /\ UNCHANGED template
  /\ UNCHANGED <<contacts, scheduledEmails, outbox, campaign_analytics,
                 email_campaigns, returned, campaignRest>>

\* lines 97-102 / 285-290
SelectContacts ==
  /\ cpc = "getContacts"
  /\ \/ /\ contacts' = MatchedContacts(campaign.target_audience)
        /\ cpc' = "fanOut"
        /\ UNCHANGED thrown
     \/ /\ thrown' = "ContactsError"
        /\ cpc' = "thrown"
        /\ UNCHANGED contacts
  /\ UNCHANGED <<template, scheduledEmails, outbox, campaign_analytics,
                 email_campaigns, returned, campaignRest>>

\* lines 105-123 / 293-311: contacts.map runs every callback up to its first
\* await, so each contact's send request is issued here, in order
FanOut ==
  /\ cpc = "fanOut"
  /\ scheduledEmails' = [i \in 1..Len(contacts) |-> Sending]
  /\ outbox' = outbox \o [i \in 1..Len(contacts) |-> Message(template, contacts[i])]
  /\ cpc' = "joining"
  /\ UNCHANGED <<template, contacts, campaign_analytics, email_campaigns, thrown,
                 returned, campaignRest>>

\* lines 306-314: the send settles; "delivered" and "errored" (an error payload in
\* the resolved value, which the code does not read) go on to the analytics
\* insert, "rejected" goes to the catch block
SendSettles(i, outcome) ==
  /\ i \in 1..Len(scheduledEmails)
  /\ scheduledEmails[i].pc = "sending"
  /\ scheduledEmails' =
       [scheduledEmails EXCEPT ![i] =
          IF outcome = "rejected"
            THEN Caught(scheduledEmails[i], outcome, "none")
            ELSE [pc |-> "inserting", send |-> outcome, insert |-> "pending",
                  value |-> "pending"]]
  /\ UNCHANGED <<template, cpc, contacts, outbox, campaign_analytics, email_campaigns,
                 thrown, returned, campaignRest>>

\* lines 314-324: the insert settles; "ok" stores the row, "error" is an error
\* payload in the resolved value (not read), "rejected" goes to the catch block
InsertSettles(i, outcome) ==
  /\ i \in 1..Len(scheduledEmails)
  /\ scheduledEmails[i].pc = "inserting"
  /\ scheduledEmails' =
       [scheduledEmails EXCEPT ![i] =
          IF outcome = "rejected"
            THEN Caught(scheduledEmails[i], scheduledEmails[i].send, outcome)
            ELSE Fulfilled(scheduledEmails[i], outcome)]
  /\ campaign_analytics' =
       IF outcome = "ok"
         THEN Append(campaign_analytics, AnalyticsEvent(campaign.id, contacts[i].id))
         ELSE campaign_analytics
  /\ UNCHANGED <<template, cpc, contacts, outbox, email_campaigns, thrown, returned,
                 campaignRest>>

\* lines 327-337: after the join, the status update and the return
UpdateStatus ==
  /\ cpc = "joining"
  /\ PromiseAll(scheduledEmails)
  /\ \/ /\ email_campaigns' = [status |-> "sent", sent_at |-> "now"]
        /\ returned' = [kind |-> "boolean", value |-> TRUE]
        /\ cpc' = "returned"
        /\ UNCHANGED thrown
     \/ /\ thrown' = "UpdateError"
        /\ cpc' = "thrown"
        /\ UNCHANGED <<email_campaigns, returned>>
  /\ UNCHANGED <<template, contacts, scheduledEmails, outbox, campaign_analytics,
                 campaignRest>>

NextCampaign ==
  \/ CheckSchedule
  \/ GetEmailTemplate
  \/ SelectContacts
  \/ FanOut
  \/ \E i \in 1..NContacts, o \in {"delivered", "errored", "rejected"} : SendSettles(i, o)
  \/ \E i \in 1..NContacts, o \in {"ok", "error", "rejected"} : InsertSettles(i, o)
  \/ UpdateStatus

SpecCampaign == InitCampaign /\ [][NextCampaign]_vars

(***************************************************************************)
(* Properties of scheduleCampaign.                                         *)
(***************************************************************************)
Finished == cpc \in {"returned", "thrown"}

\* every recipient's attempt has completed, with true or with false
EveryAttemptCompleted ==
  \A i \in 1..Len(scheduledEmails) : scheduledEmails[i].value \in {"true", "false"}

TemplateExists(id) == Len(RowsWithId(email_templates, id)) = 1

\* requests handed to the delivery provider for one contact
Attempts(row) == Cardinality({k \in 1..Len(outbox) : outbox[k].to = row.email})

Events(row) ==
  Cardinality({k \in 1..Len(campaign_analytics) :
                 /\ campaign_analytics[k].campaign_id = campaign.id
                 /\ campaign_analytics[k].recipient_id = row.id})

CountValue(v) == Cardinality({i \in 1..Len(scheduledEmails) : scheduledEmails[i].value = v})

\* callbacks in which an awaited call rejected
CountRejected ==
  Cardinality({i \in 1..Len(scheduledEmails) :
                 scheduledEmails[i].send = "rejected" \/ scheduledEmails[i].insert = "rejected"})

StoreFailures == {"TemplateStoreError", "ContactsError", "UpdateError"}

\* C1: for a campaign with scheduled_at present and an existing template, once
\* the call has ended (and no store request of the call itself failed) every
\* matched contact has had exactly one delivery attempt, no error of a delivery
\* left the call, and the stored status is "sent".
C1_EveryMatchedContactAttempted ==
  (/\ Finished
   /\ Truthy(Field(campaign, "scheduled_at"))
   /\ TemplateExists(campaign.template_id)
   /\ thrown \notin StoreFailures)
  => /\ \A k \in 1..Len(MatchedContacts(campaign.target_audience)) :
          Attempts(MatchedContacts(campaign.target_audience)[k]) = 1
     /\ thrown = "none"
     /\ email_campaigns.status = "sent"

C3_StatusUpdateAfterAllAttempts ==
  [][/\ (email_campaigns' # email_campaigns \/ (cpc = "joining" /\ cpc' # "joining"))
          => EveryAttemptCompleted
     /\ email_campaigns.status = "sent"
          => /\ scheduledEmails' = scheduledEmails
             /\ outbox' = outbox
             /\ campaign_analytics' = campaign_analytics]_vars

C3_Witness ==
  /\ email_campaigns.status = "sent"
  /\ Len(scheduledEmails) >= 2
  /\ CountValue("true") >= 1
  /\ CountValue("false") >= 1

\* C4: a call that fails a precondition has had no side effect, and a
\* campaign whose scheduled_at is present does not fail the schedule check.
C4_PreconditionFailures ==
  /\ thrown \in {"ScheduleRequired", "TemplateNotFound"}
       => /\ outbox = << >>
          /\ campaign_analytics = << >>
          /\ email_campaigns.status = "scheduled"
  /\ Truthy(Field(campaign, "scheduled_at")) => thrown # "ScheduleRequired"

\* the first half of C4 alone
C4_NoSideEffectOnPreconditionFailure ==
  thrown \in {"ScheduleRequired", "TemplateNotFound"}
    => /\ outbox = << >>
       /\ campaign_analytics = << >>
       /\ email_campaigns.status = "scheduled"

\* C10: when the fan-out has finished, a recipient whose delivery succeeded or
\* was rejected has an analytics event exactly when the delivery succeeded,
\* and is counted as succeeded exactly when the delivery succeeded.
C10_EventsMatchDeliveries ==
  (cpc \in {"joining", "returned", "thrown"} /\ EveryAttemptCompleted)
  => \A i \in 1..Len(scheduledEmails) :
       scheduledEmails[i].send \in {"delivered", "rejected"}
       => /\ (Events(contacts[i]) = 1) <=> (scheduledEmails[i].send = "delivered")
          /\ (scheduledEmails[i].value = "true") <=> (scheduledEmails[i].send = "delivered")

(***************************************************************************)
(* Validated writes: social.ts, and createEmailTemplate of email.ts.       *)
(***************************************************************************)
\* a string whose characters are not looked at, kept whole
Text(w) == Str(<<w>>)

Array(items) == [t |-> "array", s |-> items]

Shape(key, type, required, enum) ==
  [key |-> key, type |-> type, required |-> required, enum |-> enum]

\* social.ts lines 14-23
SocialPostSchema ==
  {Shape("platform", "string", TRUE, {}),
   Shape("content", "string", TRUE, {}),
   Shape("media_urls", "array", FALSE, {}),
   Shape("scheduled_at", "string", FALSE, {}),
   Shape("tags", "array", FALSE, {}),
   Shape("location", "record", FALSE, {}),
   Shape("campaign_id", "string", FALSE, {}),
   Shape("status", "string", FALSE, {<<"draft">>, <<"scheduled">>, <<"published">>})}

\* social.ts lines 25-32
SocialInteractionSchema ==
  {Shape("post_id", "string", TRUE, {}),
   Shape("type", "string", TRUE, {<<"like">>, <<"share">>, <<"comment">>}),
   Shape("platform_user_id", "string", FALSE, {}),
   Shape("platform_username", "string", FALSE, {}),
   Shape("content", "string", FALSE, {}),
   Shape("metadata", "record", FALSE, {})}

\* email.ts lines 210-216
EmailTemplateSchema ==
  {Shape("id", "string", TRUE, {}),
   Shape("name", "string", TRUE, {}),
   Shape("subject", "string", TRUE, {}),
   Shape("content", "string", TRUE, {}),
   Shape("variables", "array", TRUE, {})}

\* one field against its declared shape: optional() admits undefined
FieldConforms(shape, v) ==
  IF v.t = "undefined" THEN ~shape.required
  ELSE v.t = shape.type /\ (shape.enum = {} \/ v.s \in shape.enum)

Conforms(schema, input) == \A shape \in schema : FieldConforms(shape, Field(input, shape.key))

\* z.object strips the keys the schema does not declare
Strip(schema, input) ==
  [k \in {key \in DOMAIN input : \E shape \in schema : shape.key = key} |-> input[k]]

\* Schema.parse(input): the stripped value, or a ZodError
Parse(schema, input) ==
  [ok |-> Conforms(schema, input), value |-> Strip(schema, input)]

ScheduledKeepingStatus(validatedPost) == validatedPost

\* social.ts line 87: validatedPost.status = 'scheduled'
Scheduled(validatedPost) ==
  [k \in DOMAIN validatedPost \cup {"status"} |->
     IF k = "status" THEN Text("scheduled") ELSE validatedPost[k]]

\* the row as the store keeps it: the store assigns the id
Stored(rows, record) ==
  [k \in DOMAIN record \cup {"id"} |->
     IF k = "id" THEN Text(ToString(Len(rows) + 1)) ELSE record[k]]

Upserted(rows, record) ==
  IF rows = << >> THEN <<Stored(rows, record)>>
  ELSE [rows EXCEPT ![Len(rows)] = Stored(SubSeq(rows, 1, Len(rows) - 1), record)]

\* .insert(record): one new row, no row of the collection is touched
Inserted(rows, record) == Append(rows, Stored(rows, record))

Post == [platform |-> Text("instagram"), content |-> Text("hello")]

PostInputs ==
  {Post,
   Post @@ [scheduled_at |-> Timestamp],
   Post @@ [scheduled_at |-> Timestamp, status |-> Text("draft")],
   Post @@ [scheduled_at |-> Str(<< >>)],
   Post @@ [scheduled_at |-> Num(<<"7">>)],
   Post @@ [scheduled_at |-> Timestamp, status |-> Text("archived")],
   Post @@ [scheduled_at |-> Timestamp, admin |-> Text("yes")],
   Post @@ [status |-> Text("published")],
   [content |-> Text("hello")]}

InteractionInputs ==
  {[post_id |-> Text("p1"), type |-> Text("like")],
   [post_id |-> Text("p1"), type |-> Text("share"), content |-> Text("nice")],
   [post_id |-> Text("p1"), type |-> Text("poke")],
   [type |-> Text("like")]}

TemplateInputs ==
  {[name |-> Text("welcome"), subject |-> Text("Welcome"), content |-> Str(ExampleContent),
    variables |-> Array(<<"name">>)],
   [name |-> Text("welcome"), content |-> Str(ExampleContent), variables |-> Array(<<"name">>)],
   [name |-> Text("welcome"), subject |-> Text("Welcome"), content |-> Str(ExampleContent),
    variables |-> Text("name")]}

NoRecord == [k \in {} |-> Undefined]

IdleCall == [pc |-> "idle", op |-> "none", input |-> NoRecord, record |-> NoRecord,
             error |-> "none", data |-> NoRecord]

InitSocial ==
  /\ calls = [p \in 1..NCallers |-> IdleCall]
  /\ social_posts = << >>
  /\ social_interactions = << >>
  /\ email_templates = << >>
  /\ IdleRender
  /\ IdleCampaign
  /\ campaign_analytics = << >>
  /\ metrics = [pc |-> "idle"]

socialRest == <<renderVars, campaignVars, campaign_analytics, metrics>>

\* the function threw before any request to the store
Throws(p, op, input, error) ==
  calls' = [calls EXCEPT ![p] = [IdleCall EXCEPT !.pc = "thrown", !.op = op,
                                                 !.input = input, !.error = error]]

\* the function issued supabase.from(...).insert(record) and awaits it
Inserts(p, op, input, record) ==
  calls' = [calls EXCEPT ![p] = [IdleCall EXCEPT !.pc = "inserting", !.op = op,
                                                 !.input = input, !.record = record]]

\* social.ts lines 53-60
createSocialPost(p, post) ==
  /\ calls[p].pc = "idle"
  /\ LET validatedPost == Parse(SocialPostSchema, post)
     IN IF ~validatedPost.ok
          THEN Throws(p, "createSocialPost", post, "ZodError")
          ELSE Inserts(p, "createSocialPost", post, validatedPost.value)
  /\ UNCHANGED <<social_posts, social_interactions, email_templates, socialRest>>

\* social.ts lines 78-93
scheduleSocialPost(p, post) ==
  /\ calls[p].pc = "idle"
  /\ LET validatedPost == Parse(SocialPostSchema, post)
     IN IF ~validatedPost.ok
          THEN Throws(p, "scheduleSocialPost", post, "ZodError")
          ELSE IF ~Truthy(Field(validatedPost.value, "scheduled_at"))
            THEN Throws(p, "scheduleSocialPost", post, "ScheduleRequired")
            ELSE Inserts(p, "scheduleSocialPost", post, Scheduled(validatedPost.value))
  /\ UNCHANGED <<social_posts, social_interactions, email_templates, socialRest>>

\* social.ts lines 136-143
trackSocialInteraction(p, interaction) ==
  /\ calls[p].pc = "idle"
  /\ LET validatedInteraction == Parse(SocialInteractionSchema, interaction)
     IN IF ~validatedInteraction.ok
          THEN Throws(p, "trackSocialInteraction", interaction, "ZodError")
          ELSE Inserts(p, "trackSocialInteraction", interaction, validatedInteraction.value)
  /\ UNCHANGED <<social_posts, social_interactions, email_templates, socialRest>>

\* email.ts lines 241-247: the template goes to the store as it was given
createEmailTemplate(p, tpl) ==
  /\ calls[p].pc = "idle"
  /\ Inserts(p, "createEmailTemplate", tpl, tpl)
  /\ UNCHANGED <<social_posts, social_interactions, email_templates, socialRest>>

\* the insert of a call settles (social.ts lines 62-67, 95-96, 145-146; email.ts
\* lines 249-250): "ok" stores the row and returns it, "error" makes the call throw
InsertCompletes(p, outcome) ==
  /\ calls[p].pc = "inserting"
  /\ LET op == calls[p].op
         rows == CASE op = "createEmailTemplate" -> email_templates
                   [] op = "trackSocialInteraction" -> social_interactions
                   [] OTHER -> social_posts
         after == IF outcome = "ok" THEN Inserted(rows, calls[p].record) ELSE rows
     IN /\ email_templates' = IF op = "createEmailTemplate" THEN after ELSE email_templates
        /\ social_interactions' =
             IF op = "trackSocialInteraction" THEN after ELSE social_interactions
        /\ social_posts' =
             IF op \in {"createSocialPost", "scheduleSocialPost"} THEN after ELSE social_posts
        /\ calls' = [calls EXCEPT ![p] =
             IF outcome = "ok"
               THEN [@ EXCEPT !.pc = "returned", !.data = after[Len(after)]]
               ELSE [@ EXCEPT !.pc = "thrown", !.error = "StoreError"]]
  /\ UNCHANGED socialRest

NextSocial ==
  \E p \in 1..NCallers :
    \/ \E post \in PostInputs : createSocialPost(p, post)
    \/ \E post \in PostInputs : scheduleSocialPost(p, post)
    \/ \E interaction \in InteractionInputs : trackSocialInteraction(p, interaction)
    \/ \E tpl \in TemplateInputs : createEmailTemplate(p, tpl)
    \/ \E outcome \in {"ok", "error"} : InsertCompletes(p, outcome)

SpecSocial == InitSocial /\ [][NextSocial]_vars

(***************************************************************************)
(* Properties of the validated writes.                                     *)
(***************************************************************************)
Callers(op) == {p \in 1..NCallers : calls[p].op = op}

\* a call that asked the store for an insert
Wrote(p) == calls[p].pc \in {"inserting", "returned"}

\* the declared shape of each function's input (createEmailTemplate takes
\* Omit<EmailTemplate, 'id'>)
DeclaredShape(op) ==
  CASE op = "createEmailTemplate" -> {shape \in EmailTemplateSchema : shape.key # "id"}
    [] op = "trackSocialInteraction" -> SocialInteractionSchema
    [] OTHER -> SocialPostSchema

\* C5 as stated: a scheduleSocialPost call without scheduled_at fails with the
\* schedule-required error and inserts nothing; a row it inserts has
\* scheduled_at present and status "scheduled".
C5_ScheduleRequiredAlways ==
  \A p \in Callers("scheduleSocialPost") :
    /\ "scheduled_at" \notin DOMAIN calls[p].input
         => calls[p].pc = "thrown" /\ calls[p].error = "ScheduleRequired"
    /\ Wrote(p) => /\ Truthy(Field(calls[p].record, "scheduled_at"))
                   /\ Field(calls[p].record, "status") = Text("scheduled")

\* C5 as amended: a scheduleSocialPost call without scheduled_at fails and
\* inserts nothing: with a ZodError when the input does not pass
\* SocialPostSchema, with the schedule-required error when it does; the row a
\* call inserts is the validated input with status "scheduled", has scheduled_at
\* present, and is the row the store then holds and the call returns.
C5_ScheduleRequiredOrInvalid ==
  \A p \in Callers("scheduleSocialPost") :
    /\ "scheduled_at" \notin DOMAIN calls[p].input
         => /\ calls[p].pc = "thrown"
            /\ calls[p].error = IF Conforms(SocialPostSchema, calls[p].input)
                                  THEN "ScheduleRequired" ELSE "ZodError"
    /\ Wrote(p) => /\ Truthy(Field(calls[p].record, "scheduled_at"))
                   /\ Field(calls[p].record, "status") = Text("scheduled")
                   /\ \A k \in DOMAIN calls[p].record \ {"status"} :
                        calls[p].record[k] = calls[p].input[k]
    /\ calls[p].pc = "returned"
         => /\ \E k \in 1..Len(social_posts) : social_posts[k] = calls[p].data
            /\ calls[p].data.status = Text("scheduled")
            /\ Truthy(calls[p].data.scheduled_at)

C5_Witness ==
  \E p, q \in Callers("scheduleSocialPost") :
    /\ calls[p].pc = "returned"
    /\ "status" \notin DOMAIN calls[p].input
    /\ calls[p].data.status = Text("scheduled")
    /\ calls[q].pc = "thrown"
    /\ calls[q].error = "ZodError"
    /\ "scheduled_at" \notin DOMAIN calls[q].input

\* C6: every insert of the four functions is of an input that passed
\* validation against its declared shape, and an input that does not conform
\* fails with a validation error and causes no write.
C6_ValidatedBeforeWrite ==
  \A p \in 1..NCallers :
    calls[p].pc # "idle" =>
      /\ Wrote(p) => Conforms(DeclaredShape(calls[p].op), calls[p].input)
      /\ ~Conforms(DeclaredShape(calls[p].op), calls[p].input)
           => calls[p].pc = "thrown" /\ calls[p].error = "ZodError"

\* C6 without createEmailTemplate: the three functions of social.ts
C6_SocialValidatedBeforeWrite ==
  \A p \in 1..NCallers :
    (calls[p].pc # "idle" /\ calls[p].op # "createEmailTemplate") =>
      /\ Wrote(p) => Conforms(DeclaredShape(calls[p].op), calls[p].input)
      /\ ~Conforms(DeclaredShape(calls[p].op), calls[p].input)
           => calls[p].pc = "thrown" /\ calls[p].error = "ZodError"

\* C9: whatever the interleaving of the trackSocialInteraction calls, the
\* collection holds one row per call that succeeded: every such call's row is
\* there as validated, under an id no other call's row has.
C9_OneRowPerSuccessfulCall ==
  LET done == {p \in Callers("trackSocialInteraction") : calls[p].pc = "returned"}
  IN /\ Len(social_interactions) = Cardinality(done)
     /\ \A p \in done :
          /\ \E k \in 1..Len(social_interactions) : social_interactions[k] = calls[p].data
          /\ \A k \in DOMAIN calls[p].record : calls[p].data[k] = calls[p].record[k]
          /\ \A q \in done : q # p => calls[q].data.id # calls[p].data.id

C9_Witness ==
  /\ Len(social_interactions) = 2
  /\ calls[1].op = "trackSocialInteraction"
  /\ calls[2].op = "trackSocialInteraction"
  /\ calls[1].pc = "returned"
  /\ calls[2].pc = "returned"
  /\ calls[1].input.post_id = calls[2].input.post_id
  /\ social_interactions[1] = calls[2].data
  /\ social_interactions[2] = calls[1].data

(***************************************************************************)
(* getCampaignPerformance (email.ts lines 345-376; lines 157-188 are the    *)
(* same text).  A JavaScript number is finite (kept as a fraction), NaN or  *)
(* Infinity; null is what sum() gives over no value.                        *)
(***************************************************************************)
Finite(n, d) == [k |-> "finite", num |-> n, den |-> d]

NaN == [k |-> "NaN", num |-> 0, den |-> 0]

Infinity == [k |-> "Infinity", num |-> 0, den |-> 0]

Null == [k |-> "null", num |-> 0, den |-> 0]

\* ToNumber(null) is 0
ToNumber(x) == IF x.k = "null" THEN Finite(0, 1) ELSE x

\* x / y for a count or sum x >= 0 and a count y >= 0
Divide(x, y) ==
  LET a == ToNumber(x)
      b == ToNumber(y)
  IN IF b.num = 0
       THEN (IF a.num = 0 THEN NaN ELSE Infinity)
       ELSE Finite(a.num, b.num)

\* x * 100
Times100(x) == IF x.k = "finite" THEN Finite(x.num * 100, x.den) ELSE x

RECURSIVE SumValue(_)
SumValue(rows) ==
  IF rows = << >> THEN 0 ELSE Head(rows).conversion_value + SumValue(Tail(rows))

Count(rows, column) == Len(SelectSeq(rows, LAMBDA row : row[column] # "null"))

\* lines 347-358: the aggregate row of the campaign's events
Aggregate(campaignId) ==
  LET rows == SelectSeq(campaign_analytics, LAMBDA row : row.campaign_id = campaignId)
  IN [total_sent |-> Finite(Len(rows), 1),
      total_opened |-> Finite(Count(rows, "opened_at"), 1),
      total_clicked |-> Finite(Count(rows, "clicked_at"), 1),
      total_converted |-> Finite(Count(rows, "converted_at"), 1),
      total_unsubscribed |-> Finite(Count(rows, "unsubscribed_at"), 1),
      total_revenue |-> IF Count(rows, "converted_at") = 0 THEN Null
                        ELSE Finite(SumValue(rows), 1)]

\* lines 362-369
Metrics(data) ==
  data @@
  [open_rate |-> Times100(Divide(data.total_opened, data.total_sent)),
   click_rate |-> Times100(Divide(data.total_clicked, data.total_sent)),
   conversion_rate |-> Times100(Divide(data.total_converted, data.total_sent)),
   unsubscribe_rate |-> Times100(Divide(data.total_unsubscribed, data.total_sent)),
   revenue_per_recipient |-> Divide(data.total_revenue, data.total_sent)]

InitPerformance ==
  /\ campaign_analytics = << >>
  /\ metrics = [pc |-> "idle"]
  /\ email_templates = << >>
  /\ IdleRender
  /\ IdleCampaign
  /\ IdleWrites

performanceRest == <<renderVars, campaignVars, writeVars, email_templates>>

\* an event of a campaign is recorded (the insert of scheduleCampaign)
EventRecorded(campaignId, recipient) ==
  /\ metrics.pc = "idle"
  /\ Len(campaign_analytics) < MaxEvents
  /\ campaign_analytics' = Append(campaign_analytics, AnalyticsEvent(campaignId, recipient))
  /\ UNCHANGED <<metrics, performanceRest>>

\* a downstream process stamps one of the optional columns of an event
EventStamped(k, column) ==
  /\ metrics.pc = "idle"
  /\ k \in 1..Len(campaign_analytics)
  /\ campaign_analytics[k][column] = "null"
  /\ campaign_analytics' =
       [campaign_analytics EXCEPT ![k] =
          IF column = "converted_at"
            THEN [@ EXCEPT !.converted_at = "now", !.conversion_value = 5]
            ELSE [@ EXCEPT ![column] = "now"]]
  /\ UNCHANGED <<metrics, performanceRest>>

\* lines 345-376: the aggregate query settles with the row or with an error
getCampaignPerformance(campaignId) ==
  /\ metrics.pc = "idle"
  /\ \/ metrics' = [pc |-> "returned", campaign_id |-> campaignId,
                    value |-> Metrics(Aggregate(campaignId))]
     \/ metrics' = [pc |-> "thrown", campaign_id |-> campaignId]
  /\ UNCHANGED <<campaign_analytics, performanceRest>>

NextPerformance ==
  \/ \E c \in {"c1", "c2"} : EventRecorded(c, Str(<<"c", "1">>))
  \/ \E k \in 1..MaxEvents,
        column \in {"opened_at", "clicked_at", "converted_at", "unsubscribed_at"} :
       EventStamped(k, column)
  \/ \E c \in {"c1", "c2"} : getCampaignPerformance(c)

SpecPerformance == InitPerformance /\ [][NextPerformance]_vars

RateFields == {"open_rate", "click_rate", "conversion_rate", "unsubscribe_rate"}

\* C8: for a campaign with total_sent = 0 each of the four rates is the one
\* policy value, null or 0, the same for the four, never the result of a
\* division by zero.
C8_ZeroSentRatesFollowPolicy ==
  (metrics.pc = "returned" /\ metrics.value.total_sent = Finite(0, 1))
  => \E policy \in {Null, Finite(0, 1)} :
       \A rate \in RateFields : metrics.value[rate] = policy

\* what the code returns there: NaN in the four rates
C8_ZeroSentRatesAreNaN ==
  (metrics.pc = "returned" /\ metrics.value.total_sent = Finite(0, 1))
  => \A rate \in RateFields : metrics.value[rate] = NaN

====
